---- MODULE Spec2Model ----
(***************************************************************************)
(* State-machine model of the banking system: account.py (Account: PIN     *)
(* guard, withdrawal limiter, transaction ledger) and banking_system.py    *)
(* (BankingSystem: the orchestrator that owns the accounts dictionary).    *)
(*                                                                         *)
(* Conventions                                                             *)
(*   - time is an integer number of minutes (datetime.now());              *)
(*   - money amounts are integers;                                         *)
(*   - a string that the code takes apart (a category, a PIN) is a         *)
(*     sequence: a category is the sequence of its '_'-separated words,    *)
(*     a PIN is the sequence of its characters (0..9 are the digits, any   *)
(*     larger number is a non-digit character);                            *)
(*   - Python's None is NoTime for a timestamp and <<>> for a hash;        *)
(*   - holder name and record description are inert text and are left out. *)
(***************************************************************************)
EXTENDS Integers, Sequences, FiniteSets, TLC

VARIABLES accounts, next_account_number, file, now, last

vars == <<accounts, next_account_number, file, now, last>>

----------------------------------------------------------------------------
(* Program constants *)

FirstAccountNumber == 1001
DailyLimit == 50000
MinSavings == 500
MinCurrent == 1000
MinAge == 18
LargeDeposit == 100000
MaxAttempts == 3
LockMinutes == 30
PinLength == 4
RetentionDays == 7
DayMinutes == 1440
SessionAttempts == 3

(* Bounds of the model *)

MaxAccounts == 2
MaxTxns == 2
MaxWithdrawals == 2
MaxBalance == 50600
MaxTime == 10080
MaxAuthTime == 90

NoTime == -1

----------------------------------------------------------------------------
(* Categories *)

TRANSACTION_CATEGORIES ==
    << <<"DEPOSIT">>, <<"WITHDRAWAL">>, <<"TRANSFER", "IN">>,
       <<"TRANSFER", "OUT">>, <<"INTEREST">>, <<"FEE">>, <<"PAYMENT">>,
       <<"REFUND">>, <<"SALARY">>, <<"BILL", "PAYMENT">>,
       <<"ONLINE", "PURCHASE">>, <<"OTHER">> >>

CategorySet == { TRANSACTION_CATEGORIES[i] : i \in DOMAIN TRANSACTION_CATEGORIES }

(* slip: the whole category is compared with the suffix *)
endswith_whole(category, word) == category = <<word>>

(* str.endswith('_' + word) *)
endswith(category, word) ==
    /\ Len(category) >= 2
    /\ category[Len(category)] = word

(* f"{category}_{word}" *)
with_suffix(category, word) == Append(category, word)

----------------------------------------------------------------------------
(* Account *)

(* Account._hash_pin: a salted one-way hash, injective on (pin, salt) *)
hash_pin(pin, salt) == <<pin, salt>>

Salts == {"s1", "s2"}

(* Account.__init__ ; opening remembers the constructor's balance argument *)
NewAccount(age, balance, account_type, salt) ==
    [ age |-> age,
      balance |-> balance,
      opening |-> balance,
      account_type |-> account_type,
      status |-> "Active",
      transactions |-> <<>>,
      daily_withdrawals |-> <<>>,
      transaction_categories |-> [c \in CategorySet |-> 0],
      pin_hash |-> <<>>,
      salt |-> salt,
      login_attempts |-> 0,
      last_login_attempt |-> NoTime,
      locked_until |-> NoTime ]

(* slip: a PIN shorter than four digits passes the length test *)
ValidPinUpTo(pin) ==
    /\ Len(pin) <= PinLength
    /\ \A i \in 1..Len(pin) : pin[i] \in 0..9

(* str.isdigit() and the length test of Account.set_pin *)
ValidPin(pin) ==
    /\ Len(pin) = PinLength
    /\ \A i \in 1..Len(pin) : pin[i] \in 0..9

(* slip: setting a PIN also lifts the lockout *)
set_pin_acc_unlocking(acc, pin, salt) ==
    [acc EXCEPT !.salt = salt, !.pin_hash = hash_pin(pin, salt),
                !.login_attempts = 0, !.locked_until = NoTime]

(* Account.set_pin, on a valid pin *)
set_pin_acc(acc, pin, salt) ==
    [acc EXCEPT !.salt = salt, !.pin_hash = hash_pin(pin, salt)]

(* datetime.date() *)
DateOf(t) == t \div DayMinutes

RECURSIVE SumAmounts(_)
SumAmounts(s) ==
    IF s = <<>> THEN 0 ELSE s[1].amount + SumAmounts(Tail(s))

(* Account.get_daily_withdrawal_total *)
get_daily_withdrawal_total(acc, date) ==
    SumAmounts(SelectSeq(acc.daily_withdrawals, LAMBDA w : DateOf(w.d) = date))

(* the category minimum of Account.can_withdraw *)
min_balance(acc) ==
    IF acc.account_type = "Savings" THEN MinSavings ELSE MinCurrent

(* slip: zero passes the amount test *)
not_positive_strict(amount) == amount < 0

(* Account.can_withdraw, the amount test *)
not_positive(amount) == amount <= 0

(* slip: a withdrawal down to exactly the minimum is refused *)
below_min_balance_inclusive(acc, amount) ==
    acc.balance - amount <= min_balance(acc)

(* Account.can_withdraw, the minimum balance test *)
below_min_balance(acc, amount) == acc.balance - amount < min_balance(acc)

(* slip: the requested amount is left out of the daily limit test *)
exceeds_daily_limit_before(today_total, amount) == today_total > DailyLimit

(* Account.can_withdraw, the daily limit test *)
exceeds_daily_limit(today_total, amount) == today_total + amount > DailyLimit

(* Account.can_withdraw: the reason of the rejection, "" when approved *)
can_withdraw(acc, amount, t) ==
    IF acc.status # "Active" THEN "not active"
    ELSE IF not_positive(amount) THEN "not positive"
    ELSE IF below_min_balance(acc, amount) THEN "insufficient funds"
    ELSE IF exceeds_daily_limit(get_daily_withdrawal_total(acc, DateOf(t)),
                                amount)
         THEN "daily limit"
    ELSE ""

(* slip: an event exactly seven days old is kept *)
retained_inclusive(d, week_ago) == d >= week_ago

(* Account.add_withdrawal, the retention test of the clean-up *)
retained(d, week_ago) == d > week_ago

(* slip: the event is logged but the balance is not debited *)
add_withdrawal_no_debit(acc, amount, t) ==
    LET week_ago == t - RetentionDays * DayMinutes
        appended == Append(acc.daily_withdrawals, [d |-> t, amount |-> amount])
    IN [acc EXCEPT !.daily_withdrawals =
                       SelectSeq(appended, LAMBDA w : retained(w.d, week_ago))]

(* Account.add_withdrawal *)
add_withdrawal(acc, amount, t) ==
    LET week_ago == t - RetentionDays * DayMinutes
        appended == Append(acc.daily_withdrawals, [d |-> t, amount |-> amount])
    IN [acc EXCEPT !.balance = @ - amount,
                   !.daily_withdrawals =
                       SelectSeq(appended, LAMBDA w : retained(w.d, week_ago))]

(* the None of an absent limit or category argument; both are falsy *)
NoLimit == 0
NoCategory == <<>>

(* slip: list[:limit], the first entries instead of the last *)
FirstN(s, limit) ==
    IF limit >= Len(s) THEN s ELSE SubSeq(s, 1, limit)

(* list[-limit:] *)
LastN(s, limit) ==
    IF limit >= Len(s) THEN s ELSE SubSeq(s, Len(s) - limit + 1, Len(s))

(* slip: the filter is applied to any category given *)
get_transaction_history_filtering(acc, limit, category) ==
    LET transactions ==
            IF category # NoCategory
            THEN SelectSeq(acc.transactions, LAMBDA t : t.category = category)
            ELSE acc.transactions
    IN IF limit # NoLimit /\ limit > 0
       THEN LastN(transactions, limit) ELSE transactions

(* Account.get_transaction_history *)
get_transaction_history(acc, limit, category) ==
    LET transactions ==
            IF category # NoCategory /\ category \in CategorySet
            THEN SelectSeq(acc.transactions, LAMBDA t : t.category = category)
            ELSE acc.transactions
    IN IF limit # NoLimit /\ limit > 0
       THEN LastN(transactions, limit) ELSE transactions

(* slip: the total adds up the running balances instead of the amounts *)
get_transaction_summary_of_balances(acc) ==
    LET category_txns(category) ==
            SelectSeq(acc.transactions, LAMBDA t : t.category = category)
        SumBalances(txns) ==
            LET partial[i \in 0..Len(txns)] ==
                    IF i = 0 THEN 0 ELSE partial[i-1] + txns[i].balance_after
            IN partial[Len(txns)]
    IN [category \in {c \in CategorySet : category_txns(c) # <<>>} |->
           LET count == Len(category_txns(category))
               total == SumBalances(category_txns(category))
           IN [count |-> count, total |-> total,
               average |-> [num |-> total, den |-> count]]]

(* Account.get_transaction_summary; the average total / count is kept exact
   as a fraction *)
get_transaction_summary(acc) ==
    LET category_txns(category) ==
            SelectSeq(acc.transactions, LAMBDA t : t.category = category)
    IN [category \in {c \in CategorySet : category_txns(c) # <<>>} |->
           LET count == Len(category_txns(category))
               total == SumAmounts(category_txns(category))
           IN [count |-> count, total |-> total,
               average |-> [num |-> total, den |-> count]]]

(* slip: the record is appended but its category is not counted *)
add_transaction_uncounted(acc, transaction_type, amount, category, t) ==
    LET cat == IF category \in CategorySet THEN category ELSE <<"OTHER">>
        balance == acc.balance + amount
        transaction == [ date |-> t, type |-> transaction_type,
                         amount |-> amount, balance_after |-> balance,
                         category |-> cat ]
    IN [acc EXCEPT !.balance = balance,
                   !.transactions = Append(@, transaction)]

(* slip: the category is stored as passed, the counter goes to OTHER *)
add_transaction_unvalidated(acc, transaction_type, amount, category, t) ==
    LET cat == IF category \in CategorySet THEN category ELSE <<"OTHER">>
        balance == acc.balance + amount
        transaction == [ date |-> t, type |-> transaction_type,
                         amount |-> amount, balance_after |-> balance,
                         category |-> category ]
    IN [acc EXCEPT !.balance = balance,
                   !.transactions = Append(@, transaction),
                   !.transaction_categories[cat] = @ + 1]

(* slip: the record is appended but the balance is left as it was *)
add_transaction_not_applied(acc, transaction_type, amount, category, t) ==
    LET cat == IF category \in CategorySet THEN category ELSE <<"OTHER">>
        transaction == [ date |-> t, type |-> transaction_type,
                         amount |-> amount, balance_after |-> acc.balance,
                         category |-> cat ]
    IN [acc EXCEPT !.transactions = Append(@, transaction),
                   !.transaction_categories[cat] = @ + 1]

(* slip: a debit is also recorded as a withdrawal event *)
add_transaction_logging_debits(acc, transaction_type, amount, category, t) ==
    LET cat == IF category \in CategorySet THEN category ELSE <<"OTHER">>
        balance == acc.balance + amount
        transaction == [ date |-> t, type |-> transaction_type,
                         amount |-> amount, balance_after |-> balance,
                         category |-> cat ]
    IN [acc EXCEPT !.balance = balance,
                   !.transactions = Append(@, transaction),
                   !.transaction_categories[cat] = @ + 1,
                   !.daily_withdrawals =
                       IF amount < 0
                       THEN Append(@, [d |-> t, amount |-> 0 - amount])
                       ELSE @]

(* Account.add_transaction *)
add_transaction(acc, transaction_type, amount, category, t) ==
    LET cat == IF category \in CategorySet THEN category ELSE <<"OTHER">>
        balance == acc.balance + amount
        transaction == [ date |-> t, type |-> transaction_type,
                         amount |-> amount, balance_after |-> balance,
                         category |-> cat ]
    IN [acc EXCEPT !.balance = balance,
                   !.transactions = Append(@, transaction),
                   !.transaction_categories[cat] = @ + 1]

----------------------------------------------------------------------------
(* BankingSystem *)

(* BankingSystem.save_accounts: the rows written to accounts.csv *)
save_accounts(accs) ==
    [n \in DOMAIN accs |->
        [ age |-> accs[n].age, balance |-> accs[n].balance,
          account_type |-> accs[n].account_type, status |-> accs[n].status ]]

RECURSIVE SumOver(_, _)
SumOver(f, S) ==
    IF S = {} THEN 0
    ELSE LET n == CHOOSE n \in S : TRUE IN f[n] + SumOver(f, S \ {n})

(* size of the model: ledger records and withdrawal events over all accounts *)
TotalTxns ==
    SumOver([n \in DOMAIN accounts |-> Len(accounts[n].transactions)],
            DOMAIN accounts)

TotalWithdrawals ==
    SumOver([n \in DOMAIN accounts |-> Len(accounts[n].daily_withdrawals)],
            DOMAIN accounts)

(* the call just made: operation, account number, arguments, return value *)
Call(op, acct, to, amount, pin, ret) ==
    [op |-> op, acct |-> acct, to |-> to, amount |-> amount, pin |-> pin,
     ret |-> ret]

(* str.lower() *)
lower(s) ==
    CASE s \in {"Savings", "SAVINGS", "savings"} -> "savings"
      [] s \in {"Current", "current"} -> "current"
      [] s \in {"Fixed", "fixed"} -> "fixed"
      [] OTHER -> s

(* str.capitalize() *)
capitalize(s) ==
    CASE lower(s) = "savings" -> "Savings"
      [] lower(s) = "current" -> "Current"
      [] lower(s) = "fixed" -> "Fixed"
      [] OTHER -> s

(* the None of an absent initial_deposit argument *)
NoDeposit == -1

(* slip: any explicit initial deposit is accepted *)
min_deposit_of_zero(account_type) == 0

(* slip: one minimum for every account type *)
min_deposit_flat(account_type) == MinSavings

(* the category minimum of BankingSystem.create_account *)
min_deposit(account_type) ==
    IF lower(account_type) = "savings" THEN MinSavings ELSE MinCurrent

Init ==
    /\ accounts = <<>>
    /\ next_account_number = FirstAccountNumber
    /\ file = <<>>
    /\ now = 0
    /\ last = Call("init", 0, 0, 0, <<>>, "None")

(* BankingSystem.create_account *)
create_account(age, account_type, initial_deposit, pin, salt, salt2) ==
    LET deposit0 == IF initial_deposit = NoDeposit
                    THEN min_deposit(account_type) ELSE initial_deposit
        account == NewAccount(age, deposit0, capitalize(account_type), salt)
        failed == \/ age < MinAge
                  \/ lower(account_type) \notin {"savings", "current"}
                  \/ deposit0 < min_deposit(account_type)
                  \/ (pin # <<>> /\ ~ValidPin(pin))
    IN IF failed
       THEN /\ last' = Call("create_account", 0, 0, 0, <<>>, "None")
            /\ UNCHANGED <<accounts, next_account_number, file, now>>
       ELSE /\ Cardinality(DOMAIN accounts) < MaxAccounts
            /\ accounts' = accounts @@
                 (next_account_number :>
                     IF pin # <<>> THEN set_pin_acc(account, pin, salt2)
                                   ELSE account)
            /\ next_account_number' = next_account_number + 1
            /\ file' = save_accounts(accounts')
            /\ last' = Call("create_account", next_account_number, 0,
                            deposit0, pin, "Account")
            /\ UNCHANGED now

(* slip: a closed account takes no deposit *)
deposit_checking_status(account_number, amount, category) ==
    IF \/ account_number \notin DOMAIN accounts
       \/ amount <= 0
       \/ accounts[account_number].status # "Active"
    THEN /\ last' = Call("deposit", account_number, 0, amount, <<>>, "False")
         /\ UNCHANGED <<accounts, next_account_number, file, now>>
    ELSE LET account == accounts[account_number]
             cat == IF amount > LargeDeposit
                    THEN <<"LARGE", "DEPOSIT">> ELSE category
             recorded == add_transaction(account, "DEPOSIT", amount, cat, now)
         IN /\ TotalTxns < MaxTxns
            /\ account.balance <= MaxBalance
            /\ accounts' = [accounts EXCEPT ![account_number] =
                              [recorded EXCEPT !.balance = @ + amount]]
            /\ file' = save_accounts(accounts')
            /\ last' = Call("deposit", account_number, 0, amount, <<>>, "True")
            /\ UNCHANGED <<next_account_number, now>>

(* slip: the monitoring tag is applied from the threshold on *)
deposit_tagging_from_threshold(account_number, amount, category) ==
    IF account_number \notin DOMAIN accounts \/ amount <= 0
    THEN /\ last' = Call("deposit", account_number, 0, amount, <<>>, "False")
         /\ UNCHANGED <<accounts, next_account_number, file, now>>
    ELSE LET account == accounts[account_number]
             cat == IF amount >= LargeDeposit
                    THEN <<"LARGE", "DEPOSIT">> ELSE category
             recorded == add_transaction(account, "DEPOSIT", amount, cat, now)
         IN /\ TotalTxns < MaxTxns
            /\ account.balance <= MaxBalance
            /\ accounts' = [accounts EXCEPT ![account_number] =
                              [recorded EXCEPT !.balance = @ + amount]]
            /\ file' = save_accounts(accounts')
            /\ last' = Call("deposit", account_number, 0, amount, <<>>, "True")
            /\ UNCHANGED <<next_account_number, now>>

(* slip: a deposit of zero is accepted and recorded *)
deposit_accepting_zero(account_number, amount, category) ==
    IF account_number \notin DOMAIN accounts \/ amount < 0
    THEN /\ last' = Call("deposit", account_number, 0, amount, <<>>, "False")
         /\ UNCHANGED <<accounts, next_account_number, file, now>>
    ELSE LET account == accounts[account_number]
             cat == IF amount > LargeDeposit
                    THEN <<"LARGE", "DEPOSIT">> ELSE category
             recorded == add_transaction(account, "DEPOSIT", amount, cat, now)
         IN /\ TotalTxns < MaxTxns
            /\ account.balance <= MaxBalance
            /\ accounts' = [accounts EXCEPT ![account_number] =
                              [recorded EXCEPT !.balance = @ + amount]]
            /\ file' = save_accounts(accounts')
            /\ last' = Call("deposit", account_number, 0, amount, <<>>, "True")
            /\ UNCHANGED <<next_account_number, now>>

(* BankingSystem.deposit *)
deposit(account_number, amount, category) ==
    IF account_number \notin DOMAIN accounts \/ amount <= 0
    THEN /\ last' = Call("deposit", account_number, 0, amount, <<>>, "False")
         /\ UNCHANGED <<accounts, next_account_number, file, now>>
    ELSE LET account == accounts[account_number]
             cat == IF amount > LargeDeposit
                    THEN <<"LARGE", "DEPOSIT">> ELSE category
             recorded == add_transaction(account, "DEPOSIT", amount, cat, now)
         IN /\ TotalTxns < MaxTxns
            /\ account.balance <= MaxBalance
            /\ accounts' = [accounts EXCEPT ![account_number] =
                              [recorded EXCEPT !.balance = @ + amount]]
            /\ file' = save_accounts(accounts')
            /\ last' = Call("deposit", account_number, 0, amount, <<>>, "True")
            /\ UNCHANGED <<next_account_number, now>>

(* BankingSystem.withdraw *)
withdraw(account_number, amount) ==
    IF \/ account_number \notin DOMAIN accounts
       \/ can_withdraw(accounts[account_number], amount, now) # ""
    THEN /\ last' = Call("withdraw", account_number, 0, amount, <<>>, "None")
         /\ UNCHANGED <<accounts, next_account_number, file, now>>
    ELSE /\ TotalWithdrawals < MaxWithdrawals
         /\ accounts' = [accounts EXCEPT ![account_number] =
                            add_withdrawal(@, amount, now)]
         /\ file' = save_accounts(accounts')
         /\ last' = Call("withdraw", account_number, 0, amount, <<>>, "True")
         /\ UNCHANGED <<next_account_number, now>>

(* slip: closing also pays the balance out *)
close_account_paying_out(account_number) ==
    IF account_number \notin DOMAIN accounts
    THEN /\ last' = Call("close_account", account_number, 0, 0, <<>>, "None")
         /\ UNCHANGED <<accounts, next_account_number, file, now>>
    ELSE /\ accounts' = [accounts EXCEPT ![account_number].status = "Inactive",
                                         ![account_number].balance = 0]
         /\ file' = save_accounts(accounts')
         /\ last' = Call("close_account", account_number, 0, 0, <<>>, "True")
         /\ UNCHANGED <<next_account_number, now>>

(* BankingSystem.close_account *)
close_account(account_number) ==
    IF account_number \notin DOMAIN accounts
    THEN /\ last' = Call("close_account", account_number, 0, 0, <<>>, "None")
         /\ UNCHANGED <<accounts, next_account_number, file, now>>
    ELSE /\ accounts' = [accounts EXCEPT ![account_number].status = "Inactive"]
         /\ file' = save_accounts(accounts')
         /\ last' = Call("close_account", account_number, 0, 0, <<>>, "True")
         /\ UNCHANGED <<next_account_number, now>>

(* BankingSystem.reopen_account *)
reopen_account(account_number) ==
    IF \/ account_number \notin DOMAIN accounts
       \/ accounts[account_number].status = "Active"
    THEN /\ last' = Call("reopen_account", account_number, 0, 0, <<>>, "False")
         /\ UNCHANGED <<accounts, next_account_number, file, now>>
    ELSE /\ accounts' = [accounts EXCEPT ![account_number].status = "Active"]
         /\ file' = save_accounts(accounts')
         /\ last' = Call("reopen_account", account_number, 0, 0, <<>>, "True")
         /\ UNCHANGED <<next_account_number, now>>

(* BankingSystem.transfer_funds *)
transfer_funds(from_account_num, to_account_num, amount, category) ==
    IF \/ from_account_num \notin DOMAIN accounts
       \/ to_account_num \notin DOMAIN accounts
       \/ accounts[from_account_num].status = "Inactive"
       \/ accounts[to_account_num].status = "Inactive"
       \/ can_withdraw(accounts[from_account_num], amount, now) # ""
    THEN /\ last' = Call("transfer_funds", from_account_num, to_account_num,
                         amount, <<>>, "False")
         /\ UNCHANGED <<accounts, next_account_number, file, now>>
    ELSE LET from_category == IF ~endswith(category, "OUT")
                              THEN with_suffix(category, "OUT") ELSE category
             to_category == IF ~endswith(category, "IN")
                            THEN with_suffix(category, "IN") ELSE category
             debited == [accounts EXCEPT ![from_account_num] =
                           add_transaction(@, "TRANSFER_OUT", 0 - amount,
                                           from_category, now)]
             credited == [debited EXCEPT ![to_account_num] =
                            add_transaction(@, "TRANSFER_IN", amount,
                                            to_category, now)]
         IN /\ \A n \in {from_account_num, to_account_num} :
                  Len(credited[n].transactions) <= MaxTxns
            /\ accounts[to_account_num].balance <= MaxBalance
            /\ accounts' = credited
            /\ file' = save_accounts(accounts')
            /\ last' = Call("transfer_funds", from_account_num, to_account_num,
                            amount, <<>>, "True")
            /\ UNCHANGED <<next_account_number, now>>

(* slip: importing exactly the next number does not advance the allocator *)
advanced_past_only(next, account_number) ==
    IF account_number > next THEN account_number + 1 ELSE next

(* BankingSystem.import_account_data, the allocator update *)
advanced(next, account_number) ==
    IF account_number >= next THEN account_number + 1 ELSE next

(* dict.get(key, default) on the imported JSON object *)
get(data, key, default) == IF key \in DOMAIN data THEN data[key] ELSE default

(* BankingSystem.import_account_data; data is the parsed JSON object, salt the
   token the Account constructor draws *)
import_account_data(data, salt) ==
    IF ~({"account_number", "account_type", "balance"} \subseteq DOMAIN data)
    THEN /\ last' = Call("import_account_data", 0, 0, 0, <<>>, "False")
         /\ UNCHANGED <<accounts, next_account_number, file, now>>
    ELSE LET account_number == data.account_number
             status == get(data, "status", "Active")
         IN /\ IF account_number \in DOMAIN accounts
               THEN /\ accounts' = [accounts EXCEPT ![account_number] =
                          [@ EXCEPT !.balance = data.balance,
                                    !.account_type = data.account_type,
                                    !.status = status,
                                    !.transactions =
                                        get(data, "transactions", @)]]
                    /\ UNCHANGED next_account_number
               ELSE /\ Cardinality(DOMAIN accounts) < MaxAccounts
                    /\ accounts' = accounts @@
                          (account_number :>
                             [NewAccount(get(data, "age", MinAge), data.balance,
                                         data.account_type, salt)
                                 EXCEPT !.status = status])
                    /\ next_account_number' =
                          advanced(next_account_number, account_number)
            /\ last' = Call("import_account_data", account_number, 0,
                            data.balance, <<>>, "True")
            /\ UNCHANGED <<file, now>>

(* BankingSystem.load_accounts: every row of accounts.csv becomes a fresh
   Account; the pin column, which save_accounts always writes empty, sets
   nothing; a missing file leaves the emptied dictionary; amounts are whole
   units, which "%.2f" and float() hand back as they were *)
load_accounts(salt) ==
    /\ accounts' = [n \in DOMAIN file |->
                       [NewAccount(file[n].age, file[n].balance,
                                   file[n].account_type, salt)
                           EXCEPT !.status = file[n].status]]
    /\ next_account_number' =
          IF \E n \in DOMAIN file : n >= next_account_number
          THEN 1 + CHOOSE n \in DOMAIN file : \A k \in DOMAIN file : k <= n
          ELSE next_account_number
    /\ last' = Call("load_accounts", 0, 0, 0, <<>>, "None")
    /\ UNCHANGED <<file, now>>

(* BankingSystem.delete_all_accounts; confirmed is the confirmation argument
   or the answer 'yes' to the prompt *)
delete_all_accounts(confirmed) ==
    IF accounts = <<>> \/ ~confirmed
    THEN /\ last' = Call("delete_all_accounts", 0, 0, 0, <<>>, "False")
         /\ UNCHANGED <<accounts, next_account_number, file, now>>
    ELSE /\ accounts' = <<>>
         /\ last' = Call("delete_all_accounts", 0, 0, 0, <<>>, "True")
         /\ UNCHANGED <<next_account_number, file, now>>

(* max(values, key) and min(values, key): the first extreme element in the
   order of the dictionary, which is the order of creation *)
max_by_age(accs) ==
    LET top == {n \in DOMAIN accs : \A k \in DOMAIN accs :
                                       accs[k].age <= accs[n].age}
    IN CHOOSE n \in top : \A k \in top : n <= k

min_by_age(accs) ==
    LET bottom == {n \in DOMAIN accs : \A k \in DOMAIN accs :
                                          accs[k].age >= accs[n].age}
    IN CHOOSE n \in bottom : \A k \in bottom : n <= k

(* BankingSystem.find_youngest_account_holder *)
find_youngest_account_holder ==
    /\ last' = IF accounts = <<>>
               THEN Call("find_youngest_account_holder", 0, 0, 0, <<>>, "None")
               ELSE Call("find_youngest_account_holder", max_by_age(accounts),
                         0, 0, <<>>, "Account")
    /\ UNCHANGED <<accounts, next_account_number, file, now>>

(* BankingSystem.find_oldest_account_holder *)
find_oldest_account_holder ==
    /\ last' = IF accounts = <<>>
               THEN Call("find_oldest_account_holder", 0, 0, 0, <<>>, "None")
               ELSE Call("find_oldest_account_holder", min_by_age(accounts),
                         0, 0, <<>>, "Account")
    /\ UNCHANGED <<accounts, next_account_number, file, now>>

(* slip: the lock test compares the wrong way round *)
is_locked_reversed(acc, t) == acc.locked_until # NoTime /\ t > acc.locked_until

(* slip: the lock still holds at the very minute it expires *)
is_locked_inclusive(acc, t) == acc.locked_until # NoTime /\ t <= acc.locked_until

(* Account.verify_pin, the lock test *)
is_locked(acc, t) == acc.locked_until # NoTime /\ t < acc.locked_until

(* slip: the lockout is set one failure early *)
lockout_reached_early(attempts) == attempts >= MaxAttempts - 1

(* slip: the lockout needs one failure more *)
lockout_reached_late(attempts) == attempts > MaxAttempts

(* Account.verify_pin, the lockout threshold *)
lockout_reached(attempts) == attempts >= MaxAttempts

(* slip: a failure after an expired lockout starts the count afresh *)
failed_attempts_forgiving(acc, t) ==
    IF acc.locked_until # NoTime /\ t >= acc.locked_until
    THEN 1 ELSE acc.login_attempts + 1

(* Account.verify_pin, the count after one more failure *)
failed_attempts(acc, t) == acc.login_attempts + 1

(* slip: the test for a configured PIN looks at the salt *)
has_no_pin_by_salt(acc) == acc.salt = ""

(* Account.verify_pin, the test for no PIN configured *)
has_no_pin(acc) == acc.pin_hash = <<>>

(* Account.verify_pin on one account: the account afterwards and the value
   returned or the exception raised *)
verify_pin_acc(acc, pin, t) ==
    LET attempts == failed_attempts(acc, t)
    IN IF is_locked(acc, t)
       THEN [acc |-> acc, ret |-> "AccountLocked"]
       ELSE IF has_no_pin(acc)
       THEN [acc |-> acc, ret |-> "True"]
       ELSE IF hash_pin(pin, acc.salt) = acc.pin_hash
       THEN [acc |-> [acc EXCEPT !.login_attempts = 0], ret |-> "True"]
       ELSE IF lockout_reached(attempts)
       THEN [acc |-> [acc EXCEPT !.login_attempts = attempts,
                                 !.last_login_attempt = t,
                                 !.locked_until = t + LockMinutes],
             ret |-> "AccountLocked"]
       ELSE [acc |-> [acc EXCEPT !.login_attempts = attempts,
                                 !.last_login_attempt = t],
             ret |-> "False"]

(* Account.verify_pin *)
verify_pin(account_number, pin) ==
    /\ account_number \in DOMAIN accounts
    /\ LET result == verify_pin_acc(accounts[account_number], pin, now)
       IN /\ accounts' = [accounts EXCEPT ![account_number] = result.acc]
          /\ last' = Call("verify_pin", account_number, 0, 0, pin, result.ret)
    /\ UNCHANGED <<next_account_number, file, now>>

(* slip: the loop of authenticate_account stops one attempt early *)
attempt_allowed_one_fewer(attempt) == attempt < SessionAttempts - 1

(* main.authenticate_account, the bound of the loop over range(max_attempts) *)
attempt_allowed(attempt) == attempt < SessionAttempts

(* the loop of main.authenticate_account from the given attempt on: pins are
   the PINs typed at the prompts; the result is the account afterwards, the
   way the function ended and the number of attempts made *)
RECURSIVE attempt_loop(_, _, _, _)
attempt_loop(acc, pins, t, attempt) ==
    IF ~attempt_allowed(attempt) \/ pins = <<>>
    THEN [acc |-> acc, ret |-> "TooManyAttempts", attempts |-> attempt]
    ELSE LET result == verify_pin_acc(acc, Head(pins), t)
         IN IF result.ret = "True"
            THEN [acc |-> result.acc, ret |-> "Account",
                  attempts |-> attempt + 1]
            ELSE IF result.ret = "AccountLocked"
            THEN [acc |-> result.acc, ret |-> "Locked",
                  attempts |-> attempt + 1]
            ELSE attempt_loop(result.acc, Tail(pins), t, attempt + 1)

(* main.authenticate_account; ret tells the two ways of returning None apart
   by the message printed, amount is the number of attempts made *)
authenticate_account(account_number, pins) ==
    /\ UNCHANGED <<next_account_number, file, now>>
    /\ IF account_number \notin DOMAIN accounts
       THEN /\ last' = Call("authenticate_account", account_number, 0, 0,
                            <<>>, "NotFound")
            /\ UNCHANGED accounts
       ELSE IF has_no_pin(accounts[account_number])
       THEN /\ last' = Call("authenticate_account", account_number, 0, 0,
                            <<>>, "Account")
            /\ UNCHANGED accounts
       ELSE LET result == attempt_loop(accounts[account_number], pins, now, 0)
            IN /\ accounts' = [accounts EXCEPT ![account_number] = result.acc]
               /\ last' = Call("authenticate_account", account_number, 0,
                               result.attempts, <<>>, result.ret)

(* Account.set_pin *)
set_pin(account_number, pin, salt) ==
    /\ account_number \in DOMAIN accounts
    /\ UNCHANGED <<next_account_number, file, now>>
    /\ IF ~ValidPin(pin)
       THEN /\ last' = Call("set_pin", account_number, 0, 0, pin, "ValueError")
            /\ UNCHANGED accounts
       ELSE /\ accounts' = [accounts EXCEPT ![account_number] =
                               set_pin_acc(@, pin, salt)]
            /\ last' = Call("set_pin", account_number, 0, 0, pin, "None")

(* slip: the reset lifts the lockout but keeps the count *)
reset_login_attempts_keeping_count(account_number) ==
    /\ account_number \in DOMAIN accounts
    /\ accounts' = [accounts EXCEPT ![account_number].locked_until = NoTime]
    /\ last' = Call("reset_login_attempts", account_number, 0, 0, <<>>, "None")
    /\ UNCHANGED <<next_account_number, file, now>>

(* Account.reset_login_attempts *)
reset_login_attempts(account_number) ==
    /\ account_number \in DOMAIN accounts
    /\ accounts' = [accounts EXCEPT ![account_number].login_attempts = 0,
                                    ![account_number].locked_until = NoTime]
    /\ last' = Call("reset_login_attempts", account_number, 0, 0, <<>>, "None")
    /\ UNCHANGED <<next_account_number, file, now>>

(* the clock: datetime.now() advances between two calls *)
Tick(minutes) ==
    /\ now' = now + minutes
    /\ UNCHANGED <<accounts, next_account_number, file, last>>

----------------------------------------------------------------------------
(* Inputs *)

AccountNumbers == FirstAccountNumber .. (FirstAccountNumber + MaxAccounts - 1)
Subject == {FirstAccountNumber}
Ages == {17, 30}
AccountTypes == {"savings", "Current", "Fixed"}
InitialDeposits == {NoDeposit, 400}
GoodPin == <<1, 2, 3, 4>>
WrongPin == <<0, 0, 0, 0>>
Pins == {GoodPin, WrongPin}
BadPins == {<<1, 2>>, <<1, 2, 3, 10>>, <<1, 2, 3, 4, 5>>}
DepositAmounts == {0, 50, 25000}
DepositCategories == {<<"DEPOSIT">>}
WithdrawAmounts == {0, 25000, 50000}
TransferAmounts == {100}
TransferCategories == {<<"TRANSFER">>}
TickSteps == {(RetentionDays * DayMinutes) \div 2}
AuthTickSteps == {15}
TypedPins == [1..SessionAttempts -> Pins]

(* ledger and withdrawal limiter of one account, driven through BankingSystem *)
Next ==
    \/ /\ accounts = <<>>
       /\ \E age \in Ages, ty \in AccountTypes, dep \in InitialDeposits,
             pin \in {<<>>, <<1, 2>>} :
             create_account(age, ty, dep, pin, "s1", "s2")
    \/ \E n \in Subject, a \in DepositAmounts, c \in DepositCategories :
          deposit(n, a, c)
    \/ \E n \in Subject, a \in WithdrawAmounts : withdraw(n, a)
    \/ \E n \in Subject : close_account(n)
    \/ \E n \in Subject : reopen_account(n)
    \/ \E n \in Subject, m \in AccountNumbers, a \in TransferAmounts,
          c \in TransferCategories : transfer_funds(n, m, a, c)
    \/ \E d \in TickSteps : now + d <= MaxTime /\ Tick(d)

Spec == Init /\ [][Next]_vars

(* credential guard of one account *)
NextAuth ==
    \/ /\ accounts = <<>>
       /\ \E pin \in {<<>>} \cup Pins, s1 \in Salts, s2 \in Salts :
             create_account(30, "Savings", NoDeposit, pin, s1, s2)
    \/ \E n \in AccountNumbers, pin \in Pins : verify_pin(n, pin)
    \/ \E n \in AccountNumbers, pin \in Pins \cup BadPins, s \in Salts :
          set_pin(n, pin, s)
    \/ \E n \in AccountNumbers : reset_login_attempts(n)
    \/ \E n \in AccountNumbers, pins \in TypedPins :
          authenticate_account(n, pins)
    \/ \E d \in AuthTickSteps : now + d <= MaxAuthTime /\ Tick(d)

SpecAuth == Init /\ [][NextAuth]_vars

(* the two parties of a transfer *)
Pair == {FirstAccountNumber, FirstAccountNumber + 1}
PairDeposits == {700}
PairAmounts == {100}
PairWithdrawAmounts == {100}
PairCategories == {<<"TRANSFER">>}
ImportedData ==
    { [account_number |-> FirstAccountNumber + 1, account_type |-> "Savings",
       balance |-> 700, status |-> "Suspended"],
      [account_number |-> FirstAccountNumber, balance |-> 700] }

(* transfers between two accounts *)
NextTransfer ==
    \/ /\ next_account_number \in Pair
       /\ \E dep \in PairDeposits :
             create_account(30, "Savings", dep, <<>>, "s1", "s2")
    \/ \E n \in Subject, a \in PairWithdrawAmounts : withdraw(n, a)
    \/ \E n \in Pair : close_account(n)
    \/ \E n \in Pair : reopen_account(n)
    \/ \E data \in ImportedData : import_account_data(data, "s1")
    \/ \E n \in AccountNumbers, m \in AccountNumbers, a \in PairAmounts,
          c \in PairCategories : transfer_funds(n, m, a, c)

SpecTransfer == Init /\ [][NextTransfer]_vars

LedgerDeposits == {-50, 0, 50, 75, LargeDeposit, LargeDeposit + 1}
LedgerCategories == {<<"DEPOSIT">>, <<"SALARY">>, <<"BONUS">>}
LedgerTransferCategories ==
    {<<"TRANSFER">>, <<"TRANSFER", "OUT">>, <<"TRANSFER", "IN">>, <<"PAYMENT">>}
UnlistedCategories == {<<"BONUS">>, <<"LARGE", "DEPOSIT">>}

HistoryLimits == -1 .. (MaxTxns + 1)

(* the categorised ledger of one account *)
NextLedger ==
    \/ /\ accounts = <<>>
       /\ create_account(30, "Savings", 700, <<>>, "s1", "s2")
    \/ \E n \in Subject, a \in LedgerDeposits, c \in LedgerCategories :
          deposit(n, a, c)
    \/ \E n \in Subject, a \in TransferAmounts,
          c \in LedgerTransferCategories : transfer_funds(n, n, a, c)
    \/ \E n \in Subject, a \in PairWithdrawAmounts : withdraw(n, a)

SpecLedger == Init /\ [][NextLedger]_vars

PersistAmounts == {25000}

(* one account across reloads of accounts.csv *)
NextPersist ==
    \/ /\ accounts = <<>>
       /\ \E pin \in {<<>>, GoodPin} :
             create_account(30, "Savings", 700, pin, "s1", "s2")
    \/ \E n \in Subject, pin \in Pins : verify_pin(n, pin)
    \/ \E n \in Subject, a \in PersistAmounts, c \in DepositCategories :
          deposit(n, a, c)
    \/ \E n \in Subject, a \in PersistAmounts : withdraw(n, a)
    \/ \E n \in Subject : close_account(n)
    \/ \E s \in Salts : load_accounts(s)

SpecPersist == Init /\ [][NextPersist]_vars

CreateAges == {17, 18}
CreateDeposits == {NoDeposit, 499, 500, 999}
CreatePins == {<<>>, <<1, 2>>, GoodPin}
CreateImports ==
    { [account_number |-> n, account_type |-> "Savings", balance |-> 500] :
          n \in AccountNumbers }

(* the allocator of account numbers *)
NextCreate ==
    \/ /\ next_account_number \in AccountNumbers
       /\ \E age \in CreateAges, ty \in AccountTypes, dep \in CreateDeposits,
             pin \in CreatePins : create_account(age, ty, dep, pin, "s1", "s2")
    \/ \E data \in CreateImports : import_account_data(data, "s1")
    \/ \E confirmed \in BOOLEAN : delete_all_accounts(confirmed)

SpecCreate == Init /\ [][NextCreate]_vars

HolderAges == {18, 20, 40, 60}

(* the account holders by age *)
NextHolders ==
    \/ /\ next_account_number \in AccountNumbers
       /\ \E age \in HolderAges :
             create_account(age, "Savings", NoDeposit, <<>>, "s1", "s2")
    \/ \E n \in AccountNumbers : close_account(n)
    \/ delete_all_accounts(TRUE)
    \/ find_youngest_account_holder
    \/ find_oldest_account_holder

SpecHolders == Init /\ [][NextHolders]_vars

TypeOK ==
    /\ DOMAIN accounts \subseteq AccountNumbers
    /\ next_account_number = FirstAccountNumber + Cardinality(DOMAIN accounts)

----------------------------------------------------------------------------
(* Properties *)

LastRecord(acc) == acc.transactions[Len(acc.transactions)]

LastEvent(acc) == acc.daily_withdrawals[Len(acc.daily_withdrawals)]

TodayTotal(acc) == get_daily_withdrawal_total(acc, DateOf(now))

(* the category minimum as the specification states it *)
CategoryMinimum(acc) ==
    CASE acc.account_type = "Savings" -> 500
      [] acc.account_type = "Current" -> 1000

(* number of events of a withdrawal log equal to e *)
Occurrences(log, e) == Len(SelectSeq(log, LAMBDA w : w = e))

(* C1: the balance of every account equals the balance_after of its most
   recent ledger record, or the creation deposit when the ledger is empty *)
C1_BalanceMatchesLedger ==
    \A n \in DOMAIN accounts :
        LET acc == accounts[n]
        IN acc.balance = IF acc.transactions = <<>>
                         THEN acc.opening
                         ELSE LastRecord(acc).balance_after

(* C2: every ledger record's balance_after equals the previous record's
   balance_after plus its own signed amount; the first record starts from the
   opening balance *)
C2_LedgerChain ==
    \A n \in DOMAIN accounts :
        LET acc == accounts[n]
            tx == acc.transactions
        IN \A i \in 1..Len(tx) :
              tx[i].balance_after =
                  (IF i = 1 THEN acc.opening ELSE tx[i-1].balance_after)
                  + tx[i].amount

(* C3: a deposit of a positive amount a on an existing account increases the
   balance by exactly a and appends exactly one record, of amount a, whose
   balance_after is the new balance *)
C3_DepositCredits ==
    [][\A n \in AccountNumbers, a \in DepositAmounts, c \in DepositCategories :
          (n \in DOMAIN accounts /\ a > 0 /\ deposit(n, a, c)) =>
              LET before == accounts[n]
                  after == accounts'[n]
              IN /\ after.balance = before.balance + a
                 /\ Len(after.transactions) = Len(before.transactions) + 1
                 /\ LastRecord(after).amount = a
                 /\ LastRecord(after).balance_after = after.balance]_vars

(* C4: an approved withdraw of a decreases the balance by exactly a, appends
   one (now, a) event to the withdrawal log and increases the total of the
   current date by exactly a *)
C4_WithdrawEffect ==
    [][\A n \in AccountNumbers, a \in WithdrawAmounts :
          (n \in DOMAIN accounts /\ withdraw(n, a) /\ last'.ret = "True") =>
              LET before == accounts[n]
                  after == accounts'[n]
                  event == [d |-> now, amount |-> a]
              IN /\ after.balance = before.balance - a
                 /\ after.daily_withdrawals # <<>>
                 /\ LastEvent(after) = event
                 /\ Occurrences(after.daily_withdrawals, event) =
                       Occurrences(before.daily_withdrawals, event) + 1
                 /\ get_daily_withdrawal_total(after, DateOf(now)) =
                       get_daily_withdrawal_total(before, DateOf(now)) + a]_vars

(* a second withdrawal on the same date has been approved and recorded *)
C4_Witness ==
    /\ last.op = "withdraw" /\ last.ret = "True"
    /\ last.acct \in DOMAIN accounts
    /\ LET acc == accounts[last.acct]
       IN /\ Len(acc.daily_withdrawals) >= 2
          /\ LastEvent(acc) = [d |-> now, amount |-> last.amount]
          /\ TodayTotal(acc) > last.amount

(* the rejection conditions of a withdrawal, as the specification lists them *)
MustReject(acc, a) ==
    \/ acc.status # "Active"
    \/ a <= 0
    \/ acc.balance - a < CategoryMinimum(acc)
    \/ TodayTotal(acc) + a > DailyLimit

(* C5: a withdraw that must be rejected (account not Active, amount <= 0,
   minimum balance breach, daily limit exceeded) changes nothing of the
   account: balance, withdrawal log, ledger, counters and status *)
C5_RejectedWithdrawFrame ==
    [][\A n \in AccountNumbers, a \in WithdrawAmounts :
          (n \in DOMAIN accounts /\ withdraw(n, a)
             /\ MustReject(accounts[n], a)) =>
              /\ accounts' = accounts
              /\ last'.ret = "None"]_vars

(* a withdrawal has been refused for the daily limit alone *)
C5_Witness ==
    /\ last.op = "withdraw" /\ last.ret = "None"
    /\ last.acct \in DOMAIN accounts
    /\ LET acc == accounts[last.acct]
       IN /\ acc.status = "Active"
          /\ last.amount > 0
          /\ acc.balance - last.amount >= CategoryMinimum(acc)
          /\ TodayTotal(acc) + last.amount > DailyLimit

(* C6: the withdrawal events recorded on the current date never sum to more
   than the daily limit *)
C6_DailyLimitRespected ==
    \A n \in DOMAIN accounts : TodayTotal(accounts[n]) <= DailyLimit

(* the daily limit has been reached exactly, by more than one withdrawal *)
C6_Witness ==
    \E n \in DOMAIN accounts :
        /\ TodayTotal(accounts[n]) = DailyLimit
        /\ Len(accounts[n].daily_withdrawals) >= 2

(* the amounts tried on an account: the inputs and the two boundaries *)
ProbeAmounts(acc) ==
    WithdrawAmounts \cup
    { acc.balance - CategoryMinimum(acc),
      acc.balance - CategoryMinimum(acc) + 1,
      DailyLimit - TodayTotal(acc),
      DailyLimit - TodayTotal(acc) + 1 }

(* C7: can_withdraw approves exactly when the status is Active, the amount is
   positive, the balance left is at least the category minimum and the total
   of the day with the amount is at most the daily limit *)
C7_CanWithdrawExact ==
    \A n \in DOMAIN accounts :
        LET acc == accounts[n]
        IN \A a \in ProbeAmounts(acc) :
              (can_withdraw(acc, a, now) = "") <=>
                  /\ acc.status = "Active"
                  /\ a > 0
                  /\ acc.balance - a >= CategoryMinimum(acc)
                  /\ TodayTotal(acc) + a <= DailyLimit

(* a withdrawal was approved that left exactly the minimum balance and
   brought the total of the day to exactly the daily limit *)
C7_Witness ==
    /\ last.op = "withdraw" /\ last.ret = "True"
    /\ last.acct \in DOMAIN accounts
    /\ LET acc == accounts[last.acct]
       IN /\ acc.balance = CategoryMinimum(acc)
          /\ TodayTotal(acc) = DailyLimit
          /\ LastEvent(acc).d = now

PinSet(acc) == acc.pin_hash # <<>>

Matches(acc, pin) == hash_pin(pin, acc.salt) = acc.pin_hash

LockedNow(acc) == acc.locked_until # NoTime /\ now < acc.locked_until

(* C8: with a PIN set and the account not locked, a wrong PIN on a count of 0
   or 1 returns False and adds 1 to the count; a wrong PIN on a count of 2,
   the third in a row, raises AccountLocked and sets locked_until to
   now + 30 minutes *)
C8_ThreeStrikes ==
    [][\A n \in AccountNumbers, pin \in Pins :
          (/\ n \in DOMAIN accounts
           /\ verify_pin(n, pin)
           /\ PinSet(accounts[n])
           /\ ~LockedNow(accounts[n])
           /\ ~Matches(accounts[n], pin)) =>
              LET before == accounts[n]
                  after == accounts'[n]
              IN /\ before.login_attempts \in {0, 1} =>
                      /\ last'.ret = "False"
                      /\ after.login_attempts = before.login_attempts + 1
                      /\ after.locked_until = before.locked_until
                 /\ before.login_attempts = 2 =>
                      /\ last'.ret = "AccountLocked"
                      /\ after.login_attempts = 3
                      /\ after.locked_until = now + 30]_vars

(* the third wrong PIN in a row has just locked the account *)
C8_Witness ==
    /\ last.op = "verify_pin" /\ last.ret = "AccountLocked"
    /\ last.acct \in DOMAIN accounts
    /\ LET acc == accounts[last.acct]
       IN /\ acc.login_attempts = 3
          /\ acc.last_login_attempt = now
          /\ acc.locked_until = now + 30

(* C9: while the account is locked every verify_pin call, the correct PIN
   included, fails with AccountLocked and leaves the count, locked_until,
   the hash and the salt unchanged *)
C9_LockedRejectsAll ==
    [][\A n \in AccountNumbers, pin \in Pins :
          (/\ n \in DOMAIN accounts
           /\ verify_pin(n, pin)
           /\ LockedNow(accounts[n])) =>
              /\ last'.ret = "AccountLocked"
              /\ accounts'[n].login_attempts = accounts[n].login_attempts
              /\ accounts'[n].locked_until = accounts[n].locked_until
              /\ accounts'[n].pin_hash = accounts[n].pin_hash
              /\ accounts'[n].salt = accounts[n].salt]_vars

(* the correct PIN has been refused during the lockout *)
C9_Witness ==
    /\ last.op = "verify_pin" /\ last.ret = "AccountLocked"
    /\ last.acct \in DOMAIN accounts
    /\ LET acc == accounts[last.acct]
       IN /\ LockedNow(acc)
          /\ acc.last_login_attempt < now
          /\ Matches(acc, last.pin)

(* C10: once the lockout has expired (now >= locked_until), verify_pin with
   the correct PIN succeeds and resets the count to 0 *)
C10_LockoutLifts ==
    [][\A n \in AccountNumbers, pin \in Pins :
          (/\ n \in DOMAIN accounts
           /\ verify_pin(n, pin)
           /\ accounts[n].locked_until # NoTime
           /\ now >= accounts[n].locked_until
           /\ PinSet(accounts[n])
           /\ Matches(accounts[n], pin)) =>
              /\ last'.ret = "True"
              /\ accounts'[n].login_attempts = 0]_vars

(* the correct PIN has been accepted at the minute the lockout expired *)
C10_Witness ==
    /\ last.op = "verify_pin" /\ last.ret = "True"
    /\ last.acct \in DOMAIN accounts
    /\ LET acc == accounts[last.acct]
       IN /\ PinSet(acc)
          /\ acc.locked_until = now
          /\ acc.last_login_attempt = now - LockMinutes
          /\ acc.login_attempts = 0

(* C11: the failed-attempt count stays between 0 and 3 *)
C11_CountRange ==
    \A n \in DOMAIN accounts : accounts[n].login_attempts \in 0..3

(* C12: after every verify_pin that returns True and after every
   reset_login_attempts the count is 0; reset_login_attempts also clears
   locked_until *)
C12_SuccessAndResetClear ==
    [][\A n \in AccountNumbers :
          /\ \A pin \in Pins :
                (n \in DOMAIN accounts /\ verify_pin(n, pin)
                   /\ last'.ret = "True") =>
                    accounts'[n].login_attempts = 0
          /\ (n \in DOMAIN accounts /\ reset_login_attempts(n)) =>
                /\ accounts'[n].login_attempts = 0
                /\ accounts'[n].locked_until = NoTime]_vars

(* a reset has cleared the count and the lockout of an account that had
   failed attempts *)
C12_Witness ==
    /\ last.op = "reset_login_attempts"
    /\ last.acct \in DOMAIN accounts
    /\ LET acc == accounts[last.acct]
       IN /\ PinSet(acc)
          /\ acc.last_login_attempt # NoTime
          /\ acc.login_attempts = 0
          /\ acc.locked_until = NoTime

(* C13: on an account without a PIN every verify_pin call returns True, and
   such an account has no failed attempt and no lockout *)
C13_NoPinAlwaysSucceeds ==
    [][\A n \in AccountNumbers, pin \in Pins :
          (n \in DOMAIN accounts /\ verify_pin(n, pin)
             /\ ~PinSet(accounts[n])) =>
              /\ last'.ret = "True"
              /\ accounts'[n].login_attempts = 0
              /\ accounts'[n].locked_until = NoTime
              /\ ~PinSet(accounts'[n])]_vars

(* a candidate PIN has been accepted on an account without a PIN, some time
   after its creation *)
C13_Witness ==
    /\ last.op = "verify_pin" /\ last.ret = "True"
    /\ last.acct \in DOMAIN accounts
    /\ ~PinSet(accounts[last.acct])
    /\ last.pin = WrongPin
    /\ now > 0

(* C14: set_pin with a valid PIN leaves locked_until and the count as they
   were, so a locked account stays locked *)
C14_SetPinKeepsLockout ==
    [][\A n \in AccountNumbers, pin \in Pins \cup BadPins, s \in Salts :
          (n \in DOMAIN accounts /\ set_pin(n, pin, s)
             /\ last'.ret = "None") =>
              /\ accounts'[n].locked_until = accounts[n].locked_until
              /\ accounts'[n].login_attempts = accounts[n].login_attempts
              /\ LockedNow(accounts[n]) => LockedNow(accounts'[n])]_vars

(* a new PIN has been set on a locked account, which is still locked *)
C14_Witness ==
    /\ last.op = "set_pin" /\ last.ret = "None"
    /\ last.acct \in DOMAIN accounts
    /\ LET acc == accounts[last.acct]
       IN /\ LockedNow(acc)
          /\ acc.login_attempts >= 3
          /\ Matches(acc, last.pin)

(* a string of exactly four digits *)
FourDigits(pin) ==
    /\ Len(pin) = 4
    /\ \A i \in DOMAIN pin : pin[i] \in 0..9

(* C15: set_pin accepts exactly the strings of four digits; any other input
   raises an error and leaves the salt and the hash as they were *)
C15_SetPinValidates ==
    [][\A n \in AccountNumbers, pin \in Pins \cup BadPins, s \in Salts :
          (n \in DOMAIN accounts /\ set_pin(n, pin, s)) =>
              IF FourDigits(pin)
              THEN /\ last'.ret = "None"
                   /\ Matches(accounts'[n], pin)
              ELSE /\ last'.ret = "ValueError"
                   /\ accounts'[n].salt = accounts[n].salt
                   /\ accounts'[n].pin_hash = accounts[n].pin_hash]_vars

(* a malformed PIN has been refused and the configured PIN still matches *)
C15_Witness ==
    /\ last.op = "set_pin" /\ last.ret = "ValueError"
    /\ last.acct \in DOMAIN accounts
    /\ PinSet(accounts[last.acct])
    /\ Matches(accounts[last.acct], GoodPin)
    /\ ~FourDigits(last.pin)

(* the ledger of after is the ledger of before plus one record of the given
   type and signed amount *)
AppendsOne(before, after, type, amount) ==
    /\ Len(after.transactions) = Len(before.transactions) + 1
    /\ SubSeq(after.transactions, 1, Len(before.transactions))
           = before.transactions
    /\ LastRecord(after).type = type
    /\ LastRecord(after).amount = amount

(* C16: an approved transfer of a between two distinct accounts appends one
   TRANSFER_OUT record of amount -a to the source and one TRANSFER_IN record
   of amount +a to the destination, debits the source by a and credits the
   destination by a, so the sum of the two balances is unchanged *)
C16_TransferMovesFunds ==
    [][\A n \in AccountNumbers, m \in AccountNumbers, a \in PairAmounts,
          c \in PairCategories :
          (n # m /\ transfer_funds(n, m, a, c) /\ last'.ret = "True") =>
              /\ AppendsOne(accounts[n], accounts'[n], "TRANSFER_OUT", 0 - a)
              /\ AppendsOne(accounts[m], accounts'[m], "TRANSFER_IN", a)
              /\ accounts'[n].balance = accounts[n].balance - a
              /\ accounts'[m].balance = accounts[m].balance + a
              /\ accounts'[n].balance + accounts'[m].balance
                     = accounts[n].balance + accounts[m].balance]_vars

(* an approved transfer between distinct accounts whose ledgers already held
   a record *)
C16_Witness ==
    /\ last.op = "transfer_funds" /\ last.ret = "True"
    /\ last.acct # last.to
    /\ Len(accounts[last.acct].transactions) > 1
    /\ Len(accounts[last.to].transactions) > 1
    /\ LastRecord(accounts[last.acct]).type = "TRANSFER_OUT"
    /\ LastRecord(accounts[last.to]).type = "TRANSFER_IN"

(* C17: transfer_funds changes no balance and no ledger unless both the source
   and the destination are Active; with an Inactive or Suspended party it is
   rejected and both accounts are unchanged *)
C17_BothActiveRequired ==
    [][\A n \in AccountNumbers, m \in AccountNumbers, a \in PairAmounts,
          c \in PairCategories :
          (/\ n \in DOMAIN accounts /\ m \in DOMAIN accounts
           /\ ~(accounts[n].status = "Active" /\ accounts[m].status = "Active")
           /\ transfer_funds(n, m, a, c)) =>
              /\ last'.ret = "False"
              /\ accounts'[n] = accounts[n]
              /\ accounts'[m] = accounts[m]]_vars

(* C18: transfer_funds, approved or rejected, leaves the withdrawal log of
   both accounts unchanged, and with it the source's daily withdrawal total and
   the amount still withdrawable today under the daily limit *)
C18_TransferSparesLimiter ==
    [][\A n \in AccountNumbers, m \in AccountNumbers, a \in PairAmounts,
          c \in PairCategories :
          (n \in DOMAIN accounts /\ m \in DOMAIN accounts
           /\ transfer_funds(n, m, a, c)) =>
              /\ accounts'[n].daily_withdrawals = accounts[n].daily_withdrawals
              /\ accounts'[m].daily_withdrawals = accounts[m].daily_withdrawals
              /\ get_daily_withdrawal_total(accounts'[n], DateOf(now'))
                     = get_daily_withdrawal_total(accounts[n], DateOf(now))
              /\ DailyLimit
                     - get_daily_withdrawal_total(accounts'[n], DateOf(now'))
                   >= DailyLimit
                        - get_daily_withdrawal_total(accounts[n], DateOf(now))
             ]_vars

(* an approved transfer out of an account that has withdrawn today *)
C18_Witness ==
    /\ last.op = "transfer_funds" /\ last.ret = "True"
    /\ last.acct # last.to
    /\ TodayTotal(accounts[last.acct]) > 0

(* the events of a withdrawal log not older than the retention period *)
Recent(log, t) ==
    SelectSeq(log, LAMBDA w : w.d > t - RetentionDays * DayMinutes)

(* C19: right after a recorded withdrawal at time t every event retained in
   the withdrawal log is later than t minus 7 days, and at any time the daily
   total counts no event older than 7 days *)
C19_RetentionAfterWithdrawal ==
    [][/\ \A n \in DOMAIN accounts' :
             get_daily_withdrawal_total(accounts'[n], DateOf(now'))
                = SumAmounts(SelectSeq(Recent(accounts'[n].daily_withdrawals,
                                              now'),
                                       LAMBDA w : DateOf(w.d) = DateOf(now')))
       /\ \A n \in AccountNumbers, a \in WithdrawAmounts :
             (withdraw(n, a) /\ last'.ret = "True") =>
                 LET log == accounts'[n].daily_withdrawals
                 IN /\ log # <<>>
                    /\ LastEvent(accounts'[n]) = [d |-> now, amount |-> a]
                    /\ \A i \in 1..Len(log) :
                          log[i].d > now - RetentionDays * DayMinutes]_vars

(* a withdrawal has just been recorded and an older event has been purged: the
   withdrawals made since the only deposit exceed what the log still holds *)
C19_Witness ==
    /\ last.op = "withdraw" /\ last.ret = "True"
    /\ LET acc == accounts[last.acct]
           tx == acc.transactions
       IN /\ Len(tx) = 1
          /\ tx[1].type = "DEPOSIT"
          /\ LastEvent(acc).d = now
          /\ tx[1].balance_after + tx[1].amount - acc.balance
                 > SumAmounts(acc.daily_withdrawals)

(* C20: for every category X and every account, the summary's total for X is
   the sum of the amounts of the history filtered by X, its count is the length
   of that history, and X is absent from the summary exactly when that history
   is empty *)
C20_SummaryMatchesHistory ==
    \A n \in DOMAIN accounts : \A X \in CategorySet :
        LET history == get_transaction_history(accounts[n], NoLimit, X)
            summary == get_transaction_summary(accounts[n])
        IN /\ (X \notin DOMAIN summary) <=> (history = <<>>)
           /\ X \in DOMAIN summary =>
                 /\ summary[X].total = SumAmounts(history)
                 /\ summary[X].count = Len(history)

(* a ledger with two records of one category beside an absent one *)
C20_Witness ==
    \E n \in DOMAIN accounts :
        LET summary == get_transaction_summary(accounts[n])
        IN /\ Len(accounts[n].transactions) > 1
           /\ \E X \in DOMAIN summary :
                 summary[X].count > 1 /\ summary[X].total > 0
           /\ DOMAIN summary # CategorySet

(* number of ledger records of a category *)
CountOf(acc, c) == Len(SelectSeq(acc.transactions, LAMBDA t : t.category = c))

(* C21: for each category the counter transaction_categories[c] equals the
   number of ledger records of category c, and the counters sum to the ledger
   length *)
C21_CountersInSync ==
    \A n \in DOMAIN accounts :
        LET acc == accounts[n]
        IN /\ \A c \in CategorySet :
                 acc.transaction_categories[c] = CountOf(acc, c)
           /\ SumOver(acc.transaction_categories, CategorySet)
                  = Len(acc.transactions)

(* a ledger of several records, one of them coerced to OTHER, on an account
   that has also withdrawn *)
C21_Witness ==
    \E n \in DOMAIN accounts :
        /\ Len(accounts[n].transactions) > 1
        /\ accounts[n].transaction_categories[<<"OTHER">>] > 0
        /\ accounts[n].transaction_categories[<<"SALARY">>] > 0
        /\ accounts[n].daily_withdrawals # <<>>

(* the counters of after are those of before with c counted k times more *)
CountsOnly(before, after, c, k) ==
    after.transaction_categories =
        [before.transaction_categories EXCEPT ![c] = @ + k]

(* the category a transfer hands to add_transaction for the given suffix *)
Passed(c, word) ==
    IF Len(c) > 1 /\ c[Len(c)] = word THEN c ELSE Append(c, word)

(* C22: every ledger record carries a category of the enumeration; a record
   appended with a category outside the enumeration is stored under OTHER and
   only the OTHER counter is incremented *)
C22_UnknownCategoryIsOther ==
    [][/\ \A n \in DOMAIN accounts' :
             \A i \in 1..Len(accounts'[n].transactions) :
                 accounts'[n].transactions[i].category \in CategorySet
       /\ \A n \in AccountNumbers, a \in LedgerDeposits,
             c \in LedgerCategories :
             (/\ deposit(n, a, c) /\ last'.ret = "True"
              /\ (a > LargeDeposit \/ c \notin CategorySet)) =>
                 /\ LastRecord(accounts'[n]).category = <<"OTHER">>
                 /\ CountsOnly(accounts[n], accounts'[n], <<"OTHER">>, 1)
       /\ \A n \in AccountNumbers, a \in TransferAmounts,
             c \in LedgerTransferCategories :
             (transfer_funds(n, n, a, c) /\ last'.ret = "True") =>
                 LET tx == accounts'[n].transactions
                     source == tx[Len(tx) - 1]
                     destination == tx[Len(tx)]
                 IN /\ Passed(c, "OUT") \notin CategorySet =>
                          source.category = <<"OTHER">>
                    /\ Passed(c, "IN") \notin CategorySet =>
                          destination.category = <<"OTHER">>
                    /\ \A X \in CategorySet :
                          accounts'[n].transaction_categories[X]
                            = accounts[n].transaction_categories[X]
                              + (IF source.category = X THEN 1 ELSE 0)
                              + (IF destination.category = X THEN 1 ELSE 0)
      ]_vars

(* a large deposit, passed on as LARGE_DEPOSIT, has just been recorded *)
C22_Witness ==
    /\ last.op = "deposit" /\ last.ret = "True"
    /\ last.amount > LargeDeposit
    /\ LastRecord(accounts[last.acct]).category = <<"OTHER">>
    /\ LastRecord(accounts[last.acct]).amount = last.amount

Min(a, b) == IF a < b THEN a ELSE b

(* h lists records of the ledger tx in the order in which tx holds them *)
InLedgerOrder(h, tx) ==
    \E f \in [1..Len(h) -> 1..Len(tx)] :
        /\ \A i \in 1..Len(h) : h[i] = tx[f[i]]
        /\ \A i \in 1..Len(h), j \in 1..Len(h) : i < j => f[i] < f[j]

(* C23: get_transaction_history(limit, category) with a category of the
   enumeration returns the records of that category in ledger order: the last
   min(limit, n) of the n such records when limit > 0, all n of them when the
   limit is absent, 0 or negative *)
C23_HistoryFiltersThenTruncates ==
    \A n \in DOMAIN accounts : \A X \in CategorySet :
        \A limit \in HistoryLimits :
            LET acc == accounts[n]
                h == get_transaction_history(acc, limit, X)
                k == CountOf(acc, X)
                all == get_transaction_history(acc, NoLimit, X)
            IN /\ InLedgerOrder(h, acc.transactions)
               /\ \A i \in 1..Len(h) : h[i].category = X
               /\ Len(all) = k
               /\ IF limit > 0
                  THEN /\ Len(h) = Min(limit, k)
                       /\ \A i \in 1..Len(h) :
                             h[i] = all[k - Len(h) + i]
                  ELSE Len(h) = k

(* two different records of one category: a limit of 1 must pick the later *)
C23_Witness ==
    \E n \in DOMAIN accounts : \E X \in CategorySet :
        LET all == get_transaction_history(accounts[n], NoLimit, X)
        IN /\ Len(all) > 1
           /\ all[1] # all[Len(all)]
           /\ get_transaction_history(accounts[n], 1, X) = <<all[Len(all)]>>

(* C24: after save_accounts followed by load_accounts every account has the
   same balance and status, still rejects a wrong PIN if it had a PIN, is
   locked until the same time, and has the same daily withdrawal total and the
   same ledger *)
C24_RoundTrip ==
    [][\A s \in Salts :
          (file = save_accounts(accounts) /\ load_accounts(s)) =>
              \A n \in DOMAIN accounts :
                  /\ n \in DOMAIN accounts'
                  /\ accounts'[n].balance = accounts[n].balance
                  /\ accounts'[n].status = accounts[n].status
                  /\ ~has_no_pin(accounts[n]) => ~has_no_pin(accounts'[n])
                  /\ accounts'[n].locked_until = accounts[n].locked_until
                  /\ get_daily_withdrawal_total(accounts'[n], DateOf(now'))
                        = get_daily_withdrawal_total(accounts[n], DateOf(now))
                  /\ accounts'[n].transactions = accounts[n].transactions
      ]_vars

(* the account types and minimum deposits as the specification states them *)
IsSavings(ty) == ty \in {"savings", "Savings"}
IsCurrent(ty) == ty \in {"current", "Current"}
StatedMinimum(ty) == IF IsSavings(ty) THEN 500 ELSE 1000

(* C25: create_account fails when age < 18, when the type is neither Savings
   nor Current, when an explicit initial deposit is below the category minimum
   or when a supplied PIN is not 4 digits; a failed create adds no account and
   does not advance next_account_number; an unspecified initial deposit
   defaults to the category minimum *)
C25_CreateValidates ==
    [][\A age \in CreateAges, ty \in AccountTypes, dep \in CreateDeposits,
          pin \in CreatePins :
          create_account(age, ty, dep, pin, "s1", "s2") =>
              IF \/ age < 18
                 \/ ~(IsSavings(ty) \/ IsCurrent(ty))
                 \/ (dep # NoDeposit /\ dep < StatedMinimum(ty))
                 \/ (pin # <<>> /\ ~FourDigits(pin))
              THEN /\ last'.ret = "None"
                   /\ accounts' = accounts
                   /\ next_account_number' = next_account_number
              ELSE /\ last'.ret = "Account"
                   /\ DOMAIN accounts'
                         = DOMAIN accounts \cup {next_account_number}
                   /\ accounts'[next_account_number].balance =
                         IF dep = NoDeposit THEN StatedMinimum(ty) ELSE dep
                   /\ next_account_number' = next_account_number + 1]_vars

(* a create has just failed on a bank that already holds an account *)
C25_Witness ==
    /\ last.op = "create_account" /\ last.ret = "None"
    /\ accounts # <<>>
    /\ \E n \in DOMAIN accounts :
          accounts[n].account_type = "Current" /\ accounts[n].balance = 1000

(* C26: next_account_number is greater than every account number present and
   never decreases; a successful create_account returns the current
   next_account_number, a number not in use, and advances it, so every number
   returned is greater than all returned before *)
C26_AllocatorIncreases ==
    [][/\ next_account_number' >= next_account_number
       /\ \A n \in DOMAIN accounts' : n < next_account_number'
       /\ \A age \in CreateAges, ty \in AccountTypes, dep \in CreateDeposits,
             pin \in CreatePins :
             (create_account(age, ty, dep, pin, "s1", "s2")
              /\ last'.ret = "Account") =>
                 /\ last'.acct = next_account_number
                 /\ last'.acct \notin DOMAIN accounts
                 /\ last'.acct \in DOMAIN accounts'
                 /\ next_account_number' > last'.acct]_vars

(* a create after delete_all_accounts: the number of the deleted account is
   not handed out again *)
C26_Witness ==
    /\ last.op = "create_account" /\ last.ret = "Account"
    /\ last.acct > FirstAccountNumber
    /\ DOMAIN accounts = {last.acct}

(* C27: close_account sets the status to Inactive and reopen_account sets it
   to Active, and neither changes any other field of the account; reopening an
   Active account reports failure and changes nothing *)
C27_CloseReopenFrame ==
    [][\A n \in DOMAIN accounts :
          /\ close_account(n) =>
                /\ last'.ret = "True"
                /\ accounts' = [accounts EXCEPT ![n].status = "Inactive"]
          /\ reopen_account(n) =>
                IF accounts[n].status = "Active"
                THEN last'.ret = "False" /\ accounts' = accounts
                ELSE /\ last'.ret = "True"
                     /\ accounts' = [accounts EXCEPT ![n].status = "Active"]
      ]_vars

(* an account with a ledger and a withdrawal log has just been reopened *)
C27_Witness ==
    /\ last.op = "reopen_account" /\ last.ret = "True"
    /\ accounts[last.acct].status = "Active"
    /\ accounts[last.acct].transactions # <<>>
    /\ accounts[last.acct].daily_withdrawals # <<>>

(* C28: a deposit of an amount <= 0 fails and leaves the balance, the ledger
   and the category counters of the account unchanged *)
C28_NonPositiveDepositRejected ==
    [][\A n \in DOMAIN accounts, a \in LedgerDeposits,
          c \in LedgerCategories :
          (a <= 0 /\ deposit(n, a, c)) =>
              /\ last'.ret = "False"
              /\ accounts'[n].balance = accounts[n].balance
              /\ accounts'[n].transactions = accounts[n].transactions
              /\ accounts'[n].transaction_categories
                    = accounts[n].transaction_categories]_vars

(* a deposit of zero has just been refused on an account with a ledger *)
C28_Witness ==
    /\ last.op = "deposit" /\ last.ret = "False"
    /\ last.amount = 0
    /\ last.acct \in DOMAIN accounts
    /\ accounts[last.acct].transactions # <<>>

(* C29: on a non-empty set of accounts find_youngest_account_holder returns
   an account whose age is at most the age of every account *)
C29_YoungestIsYoungest ==
    (last.op = "find_youngest_account_holder" /\ accounts # <<>>) =>
        /\ last.ret = "Account"
        /\ last.acct \in DOMAIN accounts
        /\ \A n \in DOMAIN accounts :
              accounts[last.acct].age <= accounts[n].age

(* C30: on a non-empty set of accounts find_oldest_account_holder returns an
   account whose age is at least the age of every account *)
C30_OldestIsOldest ==
    (last.op = "find_oldest_account_holder" /\ accounts # <<>>) =>
        /\ last.ret = "Account"
        /\ last.acct \in DOMAIN accounts
        /\ \A n \in DOMAIN accounts :
              accounts[last.acct].age >= accounts[n].age

(* C31: once a lockout has expired with the count still at 3 or more, a
   single wrong PIN raises AccountLocked at once and starts a new 30-minute
   lockout *)
C31_RelockAfterExpiry ==
    [][\A n \in DOMAIN accounts, pin \in Pins :
          (/\ accounts[n].locked_until # NoTime
           /\ now >= accounts[n].locked_until
           /\ accounts[n].login_attempts >= 3
           /\ ~Matches(accounts[n], pin)
           /\ verify_pin(n, pin)) =>
              /\ last'.ret = "AccountLocked"
              /\ accounts'[n].locked_until = now + 30
              /\ accounts'[n].login_attempts
                    = accounts[n].login_attempts + 1]_vars

(* a fourth wrong PIN, given after the first lockout expired, has just locked
   the account again *)
C31_Witness ==
    /\ last.op = "verify_pin" /\ last.ret = "AccountLocked"
    /\ last.acct \in DOMAIN accounts
    /\ LET acc == accounts[last.acct]
       IN /\ acc.login_attempts = 4
          /\ acc.last_login_attempt = now
          /\ acc.locked_until = now + 30

(* C32: whenever locked_until lies in the future a PIN is configured and the
   failed-attempt count is at least 3 *)
C32_ActiveLockNeedsThree ==
    \A n \in DOMAIN accounts :
        LockedNow(accounts[n]) =>
            /\ PinSet(accounts[n])
            /\ accounts[n].login_attempts >= 3

(* an active lockout on an account whose PIN was replaced while locked *)
C32_Witness ==
    \E n \in DOMAIN accounts :
        /\ LockedNow(accounts[n])
        /\ last.op = "set_pin" /\ last.ret = "None"
        /\ accounts[n].login_attempts = 3

(* C33: the balance of every account is at least its category minimum, 500
   for Savings and 1000 for Current *)
C33_BalanceAtLeastMinimum ==
    \A n \in DOMAIN accounts :
        accounts[n].balance >= CategoryMinimum(accounts[n])

(* a Current account with a ledger has just been withdrawn down to exactly
   its minimum *)
C33_Witness ==
    /\ last.op = "withdraw" /\ last.ret = "True"
    /\ last.acct \in DOMAIN accounts
    /\ accounts[last.acct].account_type = "Current"
    /\ accounts[last.acct].balance = 1000
    /\ accounts[last.acct].transactions # <<>>

(* C34: an approved withdraw leaves the ledger and the category counters
   unchanged, so that afterwards the last balance_after of a non-empty ledger
   differs from the balance, and history and summary are as before *)
C34_WithdrawOutsideLedger ==
    [][\A n \in AccountNumbers, a \in WithdrawAmounts :
          (withdraw(n, a) /\ last'.ret = "True") =>
              LET before == accounts[n]
                  after == accounts'[n]
              IN /\ after.transactions = before.transactions
                 /\ after.transaction_categories
                       = before.transaction_categories
                 /\ get_transaction_history(after, NoLimit, NoCategory)
                       = get_transaction_history(before, NoLimit, NoCategory)
                 /\ get_transaction_summary(after)
                       = get_transaction_summary(before)
                 /\ after.transactions # <<>> =>
                       LastRecord(after).balance_after # after.balance]_vars

(* C35: a deposit of a positive amount into an Inactive account is accepted,
   credits the balance and appends a record, while withdraw and an outgoing
   transfer on that account are rejected with nothing changed *)
C35_ClosedAccountTakesDeposits ==
    [][\A n \in DOMAIN accounts :
          accounts[n].status = "Inactive" =>
              /\ \A a \in DepositAmounts, c \in DepositCategories :
                    (a > 0 /\ deposit(n, a, c)) =>
                        /\ last'.ret = "True"
                        /\ accounts'[n].balance > accounts[n].balance
                        /\ Len(accounts'[n].transactions)
                              = Len(accounts[n].transactions) + 1
                        /\ LastRecord(accounts'[n]).amount = a
                        /\ accounts'[n].status = "Inactive"
              /\ \A a \in WithdrawAmounts :
                    withdraw(n, a) =>
                        last'.ret = "None" /\ accounts' = accounts
              /\ \A m \in AccountNumbers, a \in TransferAmounts,
                    c \in TransferCategories :
                    transfer_funds(n, m, a, c) =>
                        last'.ret = "False" /\ accounts' = accounts]_vars

(* a closed account has just been credited *)
C35_Witness ==
    /\ last.op = "deposit" /\ last.ret = "True"
    /\ last.acct \in DOMAIN accounts
    /\ accounts[last.acct].status = "Inactive"
    /\ LastRecord(accounts[last.acct]).amount = last.amount

(* C36: in an approved transfer the source record is stored under TRANSFER_OUT
   exactly when the category argument is TRANSFER or TRANSFER_OUT, the
   destination record under TRANSFER_IN exactly when it is TRANSFER or
   TRANSFER_IN; in every other case the record is stored under OTHER *)
C36_TransferCategories ==
    [][\A n \in AccountNumbers, a \in TransferAmounts,
          c \in LedgerTransferCategories :
          (transfer_funds(n, n, a, c) /\ last'.ret = "True") =>
              LET tx == accounts'[n].transactions
                  source == tx[Len(tx) - 1]
                  destination == tx[Len(tx)]
              IN /\ source.type = "TRANSFER_OUT"
                 /\ destination.type = "TRANSFER_IN"
                 /\ source.category =
                       IF c \in {<<"TRANSFER">>, <<"TRANSFER", "OUT">>}
                       THEN <<"TRANSFER", "OUT">> ELSE <<"OTHER">>
                 /\ destination.category =
                       IF c \in {<<"TRANSFER">>, <<"TRANSFER", "IN">>}
                       THEN <<"TRANSFER", "IN">> ELSE <<"OTHER">>]_vars

(* a transfer passed TRANSFER_OUT: the source record keeps it, the destination
   record falls under OTHER *)
C36_Witness ==
    /\ last.op = "transfer_funds" /\ last.ret = "True"
    /\ LET tx == accounts[last.acct].transactions
       IN /\ Len(tx) > 1
          /\ tx[Len(tx) - 1].category = <<"TRANSFER", "OUT">>
          /\ tx[Len(tx)].category = <<"OTHER">>

(* C37: a deposit above 100000 is accepted and recorded under OTHER whatever
   category was passed; a deposit of at most 100000 with a category of the
   enumeration keeps that category *)
C37_LargeDepositIsOther ==
    [][\A n \in DOMAIN accounts, a \in LedgerDeposits,
          c \in LedgerCategories :
          (a > 0 /\ deposit(n, a, c)) =>
              /\ last'.ret = "True"
              /\ LastRecord(accounts'[n]).amount = a
              /\ a > 100000 => LastRecord(accounts'[n]).category = <<"OTHER">>
              /\ (a <= 100000 /\ c \in CategorySet) =>
                    LastRecord(accounts'[n]).category = c]_vars

(* a deposit of exactly 100000 has kept the category SALARY *)
C37_Witness ==
    /\ last.op = "deposit" /\ last.ret = "True"
    /\ last.amount = 100000
    /\ LastRecord(accounts[last.acct]).category = <<"SALARY">>
    /\ LastRecord(accounts[last.acct]).amount = 100000

(* C38: with a category outside the enumeration get_transaction_history skips
   the filter: it returns what it returns without a category, the whole
   ledger when no limit applies, and not an empty list for a ledger that has
   records *)
C38_UnlistedCategoryUnfiltered ==
    \A n \in DOMAIN accounts : \A X \in UnlistedCategories :
        \A limit \in HistoryLimits :
            LET acc == accounts[n]
                h == get_transaction_history(acc, limit, X)
            IN /\ h = get_transaction_history(acc, limit, NoCategory)
               /\ limit <= 0 => h = acc.transactions
               /\ limit > 0 =>
                     /\ Len(h) = Min(limit, Len(acc.transactions))
                     /\ \A i \in 1..Len(h) :
                           h[i] = acc.transactions[
                                      Len(acc.transactions) - Len(h) + i]
               /\ acc.transactions # <<>> => h # <<>>

(* a ledger of several records, none of them of the unlisted category asked
   for *)
C38_Witness ==
    \E n \in DOMAIN accounts :
        /\ Len(accounts[n].transactions) > 1
        /\ get_transaction_history(accounts[n], NoLimit, <<"BONUS">>)
              = accounts[n].transactions
        /\ get_transaction_history(accounts[n], 1, <<"BONUS">>)
              = <<LastRecord(accounts[n])>>

(* C39: for an account with a PIN, a session of authenticate_account in which
   only wrong PINs are typed ends through AccountLocked no later than its
   third attempt, whatever the count was at the start; no session ends in the
   final 'too many failed attempts' branch *)
C39_SessionEndsLocked ==
    [][\A n \in AccountNumbers, pins \in TypedPins :
          authenticate_account(n, pins) =>
              /\ last'.ret # "TooManyAttempts"
              /\ (/\ n \in DOMAIN accounts
                  /\ PinSet(accounts[n])
                  /\ \A i \in DOMAIN pins : ~Matches(accounts[n], pins[i])) =>
                    /\ last'.ret = "Locked"
                    /\ last'.amount \in 1..3
                    /\ accounts'[n].locked_until # NoTime
                    /\ now < accounts'[n].locked_until
                    /\ accounts'[n].login_attempts >= 3]_vars

(* a session that started on a count of 0 has ended locked at its third wrong
   PIN *)
C39_Witness ==
    /\ last.op = "authenticate_account" /\ last.ret = "Locked"
    /\ last.amount = 3
    /\ accounts[last.acct].login_attempts = 3
    /\ accounts[last.acct].locked_until = now + 30

====
